---- MODULE Spec2Model ----
(***************************************************************************)
(* State-machine model of QuaternionDMP (src/quaternion_dmp.py).           *)
(*                                                                         *)
(* float64 values are fixed-point integers: the real number r is the       *)
(* integer round(r * Scale).  The transcendental functions of numpy are    *)
(* evaluated at the finer unit Fine and rounded back.  Python indices      *)
(* start at 0, sequence indices here at 1: row n of the source is entry    *)
(* n + 1.  A quaternion is the 4-tuple the source indexes q[0..3].         *)
(***************************************************************************)
EXTENDS Integers, Sequences, FiniteSets, TLC

\* ------------------------------------------------------------------------
\* Fixed-point arithmetic (numpy float64)
\* ------------------------------------------------------------------------

Scale == 100
Fine == 10000
PiFine == 31416
NaN == 999999999

Abs(a) == IF a < 0 THEN -a ELSE a
Sgn(a) == IF a < 0 THEN -1 ELSE IF a > 0 THEN 1 ELSE 0

\* a / b rounded to the nearest integer, halves away from zero (b # 0)
Quot(a, b) == Sgn(a) * Sgn(b) * ((Abs(a) + Abs(b) \div 2) \div Abs(b))

\* int(a / b): truncation toward zero
Trunc(a, b) == Sgn(a) * Sgn(b) * (Abs(a) \div Abs(b))

Mul(a, b) == Quot(a * b, Scale)
Div(a, b) == Quot(a * Scale, b)
MulF(a, b) == Quot(a * b, Fine)
DivF(a, b) == Quot(a * Fine, b)
ToFine(a) == a * (Fine \div Scale)
FromFine(a) == Quot(a, Fine \div Scale)

RECURSIVE SqrtIter(_, _)
SqrtIter(n, x) ==
    LET y == (x + n \div x) \div 2 IN IF y >= x THEN x ELSE SqrtIter(n, y)

\* floor of the square root
ISqrt(n) == IF n <= 0 THEN 0 ELSE SqrtIter(n, n)

\* square root of a Fine-unit number, in Fine units
SqrtF(a) == ISqrt(a * Fine)

\* exp(-y) for y >= 0, Fine units
RECURSIVE ExpNegF(_)
ExpNegF(y) ==
    IF y >= 12 * Fine THEN 0
    ELSE IF y > Fine \div 2
         THEN LET e == ExpNegF(y \div 2) IN MulF(e, e)
         ELSE LET y2 == MulF(y, y)
              IN  Fine - y + Quot(y2, 2) - Quot(MulF(y2, y), 6) + Quot(MulF(y2, y2), 24)

\* np.exp(x) for x <= 0, Scale units
ExpNeg(y) == FromFine(ExpNegF(ToFine(y)))

\* sin and cos on [0, pi/2], Fine units (Taylor polynomials)
SinQ(x) ==
    LET x2 == MulF(x, x)
        t3 == Quot(MulF(x, x2), 6)
        t5 == Quot(MulF(t3, x2), 20)
        t7 == Quot(MulF(t5, x2), 42)
        t9 == Quot(MulF(t7, x2), 72)
    IN  x - t3 + t5 - t7 + t9

CosQ(x) ==
    LET x2 == MulF(x, x)
        t2 == Quot(x2, 2)
        t4 == Quot(MulF(t2, x2), 12)
        t6 == Quot(MulF(t4, x2), 30)
        t8 == Quot(MulF(t6, x2), 56)
        t10 == Quot(MulF(t8, x2), 90)
    IN  Fine - t2 + t4 - t6 + t8 - t10

\* x reduced to [0, 2 pi)
Mod2Pi(x) == x % (2 * PiFine)

SinF(x) ==
    LET r == Mod2Pi(x)
    IN  IF r <= PiFine \div 2 THEN SinQ(r)
        ELSE IF r <= PiFine THEN SinQ(PiFine - r)
        ELSE IF r <= PiFine + PiFine \div 2 THEN -SinQ(r - PiFine)
        ELSE -SinQ(2 * PiFine - r)

CosF(x) ==
    LET r == Mod2Pi(x)
    IN  IF r <= PiFine \div 2 THEN CosQ(r)
        ELSE IF r <= PiFine THEN -CosQ(PiFine - r)
        ELSE IF r <= PiFine + PiFine \div 2 THEN -CosQ(r - PiFine)
        ELSE CosQ(2 * PiFine - r)

\* arctan(t) for 0 <= t <= 1, Fine units: one angle halving, then the series
AtanUnit(t) ==
    LET u == DivF(t, Fine + SqrtF(Fine + MulF(t, t)))
        u2 == MulF(u, u)
        u3 == MulF(u, u2)
        u5 == MulF(u3, u2)
        u7 == MulF(u5, u2)
        u9 == MulF(u7, u2)
    IN  2 * (u - Quot(u3, 3) + Quot(u5, 5) - Quot(u7, 7) + Quot(u9, 9))

\* np.arctan2(y, x) for y >= 0, Fine units, in [0, pi]
Atan2F(y, x) ==
    IF y = 0 THEN (IF x >= 0 THEN 0 ELSE PiFine)
    ELSE IF x >= y THEN AtanUnit(DivF(y, x))
    ELSE IF x >= 0 THEN PiFine \div 2 - AtanUnit(DivF(x, y))
    ELSE IF -x <= y THEN PiFine \div 2 + AtanUnit(DivF(-x, y))
    ELSE PiFine - AtanUnit(DivF(y, -x))

\* square root rounded to the nearest integer
RSqrt(n) == LET r == ISqrt(n) IN IF n - r * r > r THEN r + 1 ELSE r

\* np.finfo(float).eps: the smallest positive step of the number format
Eps == 1

\* ------------------------------------------------------------------------
\* Vectors; a vector or quaternion whose entries are nan is all nan
\* ------------------------------------------------------------------------

IsNaN(v) == Len(v) > 0 /\ v[1] = NaN
NaNs(k) == [i \in 1..k |-> NaN]
Zeros(k) == [i \in 1..k |-> 0]

VAdd(a, b) == IF IsNaN(a) \/ IsNaN(b) THEN NaNs(Len(a)) ELSE [i \in 1..Len(a) |-> a[i] + b[i]]
VSub(a, b) == IF IsNaN(a) \/ IsNaN(b) THEN NaNs(Len(a)) ELSE [i \in 1..Len(a) |-> a[i] - b[i]]
\* k * v for a Python int k
VTimes(k, v) == IF IsNaN(v) THEN v ELSE [i \in 1..Len(v) |-> k * v[i]]
\* x * v and v / x for a float x
VMul(x, v) == IF IsNaN(v) THEN v ELSE [i \in 1..Len(v) |-> Mul(x, v[i])]
VDiv(v, x) == IF IsNaN(v) THEN v ELSE [i \in 1..Len(v) |-> Div(v[i], x)]

RECURSIVE SumSeq(_)
SumSeq(s) == IF Len(s) = 0 THEN 0 ELSE s[1] + SumSeq(Tail(s))

\* np.linalg.norm
Norm(v) == RSqrt(SumSeq([i \in 1..Len(v) |-> v[i] * v[i]]))

\* np.linspace(0.0, stop, num) for num >= 0
linspace(stop, num) ==
    IF num = 1 THEN <<0>> ELSE [i \in 1..num |-> Quot((i - 1) * stop, num - 1)]

\* ------------------------------------------------------------------------
\* Quaternion algebra of the class: entry 1 is q[0], entries 2..4 are q[1:]
\* ------------------------------------------------------------------------

quaternion_conjugate(q) ==
    IF IsNaN(q) THEN q ELSE <<q[1], -q[2], -q[3], -q[4]>>

quaternion_product(q1, q2) ==
    IF IsNaN(q1) \/ IsNaN(q2) THEN NaNs(4)
    ELSE << Quot(q1[1]*q2[1] - (q1[2]*q2[2] + q1[3]*q2[3] + q1[4]*q2[4]), Scale),
            Quot(q1[1]*q2[2] + q2[1]*q1[2] + (q1[3]*q2[4] - q1[4]*q2[3]), Scale),
            Quot(q1[1]*q2[3] + q2[1]*q1[3] + (q1[4]*q2[2] - q1[2]*q2[4]), Scale),
            Quot(q1[1]*q2[4] + q2[1]*q1[4] + (q1[2]*q2[3] - q1[3]*q2[2]), Scale) >>

quaternion_error(q1, q2) == quaternion_product(q1, quaternion_conjugate(q2))

exponential_map(r) ==
    IF IsNaN(r) THEN NaNs(4)
    ELSE LET theta == Norm(r)
             s == FromFine(SinF(ToFine(theta) \div 2))
         IN  IF theta = 0 THEN <<Scale, 0, 0, 0>>
             ELSE << FromFine(CosF(ToFine(theta) \div 2)),
                     Mul(s, Div(r[1], theta)),
                     Mul(s, Div(r[2], theta)),
                     Mul(s, Div(r[3], theta)) >>

logarithmic_map(q) ==
    IF IsNaN(q) THEN NaNs(3)
    ELSE LET nrm == Norm(<<q[2], q[3], q[4]>>)
         IN  IF nrm < Eps THEN Zeros(3)
             ELSE VMul(FromFine(2 * Atan2F(ToFine(nrm), ToFine(q[1]))),
                       <<Div(q[2], nrm), Div(q[3], nrm), Div(q[4], nrm)>>)

\* ------------------------------------------------------------------------
\* scipy.spatial.transform (Rotation, Slerp): quaternions are (x, y, z, w),
\* entry 4 is the scalar part
\* ------------------------------------------------------------------------

\* Rotation.from_quat normalises each row; a zero-norm row is rejected
sp_has_zero_norm(demo) == \E i \in 1..Len(demo) : Norm(demo[i]) = 0
sp_from_quat(demo) == [i \in 1..Len(demo) |-> VDiv(demo[i], Norm(demo[i]))]

\* Rotation.__mul__
sp_compose(p, q) ==
    << Quot(p[4]*q[1] + q[4]*p[1] + (p[2]*q[3] - p[3]*q[2]), Scale),
       Quot(p[4]*q[2] + q[4]*p[2] + (p[3]*q[1] - p[1]*q[3]), Scale),
       Quot(p[4]*q[3] + q[4]*p[3] + (p[1]*q[2] - p[2]*q[1]), Scale),
       Quot(p[4]*q[4] - (p[1]*q[1] + p[2]*q[2] + p[3]*q[3]), Scale) >>

\* Rotation.inv
sp_inv(q) == <<-q[1], -q[2], -q[3], q[4]>>

\* Rotation.as_rotvec: the representative with w >= 0, angle in [0, pi]
sp_as_rotvec(q0) ==
    LET q == IF q0[4] < 0 THEN VTimes(-1, q0) ELSE q0
        nrm == Norm(<<q[1], q[2], q[3]>>)
    IN  IF nrm = 0 THEN Zeros(3)
        ELSE VMul(FromFine(2 * Atan2F(ToFine(nrm), ToFine(q[4]))),
                  <<Div(q[1], nrm), Div(q[2], nrm), Div(q[3], nrm)>>)

\* Rotation.from_rotvec
sp_from_rotvec(r) ==
    LET nrm == Norm(r)
        s == FromFine(SinF(ToFine(nrm) \div 2))
    IN  IF nrm = 0 THEN <<0, 0, 0, Scale>>
        ELSE << Mul(s, Div(r[1], nrm)), Mul(s, Div(r[2], nrm)), Mul(s, Div(r[3], nrm)),
                FromFine(CosF(ToFine(nrm) \div 2)) >>

\* Slerp.__call__ at query time (k-1)/(num-1) of linspace(0, T, num), over the
\* knots linspace(0, T, Len(rots)): np.searchsorted(times, t) - 1, moved to 0
\* at t = times[0].  Both grids are compared exactly.
SlerpInterval(rots, k, num) ==
    IF k = 1 THEN 1
    ELSE CHOOSE i \in 1..(Len(rots) - 1) :
            /\ (i - 1) * (num - 1) < (k - 1) * (Len(rots) - 1)
            /\ (k - 1) * (Len(rots) - 1) <= i * (num - 1)

SlerpAlpha(rots, k, num, i) ==
    IF num = 1 THEN 0
    ELSE Quot(Scale * ((k - 1) * (Len(rots) - 1) - (i - 1) * (num - 1)), num - 1)

SlerpAt(rots, k, num, i) ==
    sp_compose(rots[i],
               sp_from_rotvec(VMul(SlerpAlpha(rots, k, num, i),
                                   sp_as_rotvec(sp_compose(sp_inv(rots[i]), rots[i + 1])))))

\* slerp(np.linspace(0.0, T, num)).as_quat() for at least 2 rotations
Slerp(rots, num) ==
    [k \in 1..num |-> SlerpAt(rots, k, num, SlerpInterval(rots, k, num))]

\* ------------------------------------------------------------------------
\* Hyperparameters set by __init__
\* ------------------------------------------------------------------------

T0 == Scale
alphax0 == Scale
alphaz0 == 12
betaz0 == 3
tau0 == Scale

\* N_bf ** 1.5
Pow15(n) == n * RSqrt(n * Scale * Scale)

\* self.c: centers of the basis functions
Centers(N_bf) ==
    LET c_ == linspace(T0, N_bf) IN [i \in 1..N_bf |-> ExpNeg(Mul(alphax0, c_[i]))]

\* self.h: widths of the basis functions
Widths(N_bf) ==
    LET c == Centers(N_bf) IN [i \in 1..N_bf |-> Div(Div(Pow15(N_bf), c[i]), alphax0)]

\* ------------------------------------------------------------------------
\* Differentiation of the resampled trajectory
\* ------------------------------------------------------------------------

\* quaternion_diff for an array of at least 2 rows
quaternion_diff(q, dt) ==
    [n \in 1..Len(q) |->
        IF n = 1 THEN VDiv(logarithmic_map(quaternion_error(q[2], q[1])), dt)
        ELSE IF n = Len(q)
             THEN VDiv(logarithmic_map(quaternion_error(q[Len(q)], q[Len(q) - 1])), dt)
             ELSE VDiv(logarithmic_map(quaternion_error(q[n + 1], q[n - 1])), 2 * dt)]

\* np.gradient(f) with unit spacing, f of at least 2 entries
gradient(f) ==
    [n \in 1..Len(f) |->
        IF n = 1 THEN f[2] - f[1]
        ELSE IF n = Len(f) THEN f[Len(f)] - f[Len(f) - 1]
        ELSE Quot(f[n + 1] - f[n - 1], 2)]

Column(a, d) == [n \in 1..Len(a) |-> a[n][d]]

\* lines 37-39: ddq_log[:,d] = np.gradient(dq_log[:,d]) / dt
Accel(dq_log, dt) ==
    LET g == [d \in 1..3 |-> gradient(Column(dq_log, d))]
    IN  [n \in 1..Len(dq_log) |-> [d \in 1..3 |-> Div(g[d][n], dt)]]

\* np.exp(-alphax * tau * np.linspace(0.0, T, N))
PhaseSchedule(self, tau) ==
    LET t == linspace(self.T, self.N)
    IN  [n \in 1..self.N |-> ExpNeg(Mul(Mul(self.alphax, tau), t[n]))]

\* lines 51-55
ForcingTarget(self, q, qT) ==
    [n \in 1..self.N |->
        VSub(VMul(self.tau, self.ddq_log[n]),
             VTimes(self.alphaz,
                    VSub(VTimes(self.betaz, logarithmic_map(quaternion_error(qT, q[n]))),
                         self.dq_log[n])))]

\* ------------------------------------------------------------------------
\* Basis functions and regression
\* ------------------------------------------------------------------------

\* RBF(): np.exp(-self.h * (self.phase[:, np.newaxis] - self.c) ** 2)
RBF(self) ==
    [n \in 1..Len(self.phase) |->
        [i \in 1..self.N_bf |->
            ExpNeg(Mul(self.h[i],
                       Mul(self.phase[n] - self.c[i], self.phase[n] - self.c[i])))]]

\* X = BF * phase[:, np.newaxis] / np.sum(BF, axis=1)[:, np.newaxis]
DesignMatrix(self) ==
    LET BF == RBF(self)
    IN  [n \in 1..Len(BF) |->
            [i \in 1..self.N_bf |-> Div(Mul(BF[n][i], self.phase[n]), SumSeq(BF[n]))]]

Dot(a, b) == SumSeq([i \in 1..Len(a) |-> Mul(a[i], b[i])])

\* np.linalg.pinv(X) for a matrix of one or two columns (and the empty one):
\* inv(X'X) X' at full column rank, X' / |X|^2 at rank one, 0 for X = 0
pinv(X, cols) ==
    IF cols = 0 THEN << >>
    ELSE IF cols = 1
    THEN LET a == Dot(Column(X, 1), Column(X, 1))
         IN  << [n \in 1..Len(X) |-> IF a = 0 THEN 0 ELSE Div(X[n][1], a)] >>
    ELSE LET a11 == Dot(Column(X, 1), Column(X, 1))
             a12 == Dot(Column(X, 1), Column(X, 2))
             a22 == Dot(Column(X, 2), Column(X, 2))
             det == Mul(a11, a22) - Mul(a12, a12)
         IN  IF det # 0
             THEN << [n \in 1..Len(X) |-> Div(Mul(a22, X[n][1]) - Mul(a12, X[n][2]), det)],
                     [n \in 1..Len(X) |-> Div(Mul(a11, X[n][2]) - Mul(a12, X[n][1]), det)] >>
             ELSE IF a11 + a22 = 0
             THEN << [n \in 1..Len(X) |-> 0], [n \in 1..Len(X) |-> 0] >>
             ELSE << [n \in 1..Len(X) |-> Div(X[n][1], a11 + a22)],
                     [n \in 1..Len(X) |-> Div(X[n][2], a11 + a22)] >>

\* fit_dmp: weights[:,d] = np.dot(np.linalg.pinv(X), forcing_target[:,d])
fit_dmp(self, forcing_target) ==
    LET P == pinv(DesignMatrix(self), self.N_bf)
    IN  [i \in 1..self.N_bf |-> [d \in 1..3 |-> Dot(P[i], Column(forcing_target, d))]]

\* forcing_function_approx(weights, phase) for one column of the weights:
\* np.dot(BF, weights) * phase / np.sum(BF, axis=1); 0/0 is nan
forcing_function_approx(self, weights, phase) ==
    LET BF == RBF(self)
    IN  [n \in 1..Len(BF) |->
            IF SumSeq(BF[n]) = 0 THEN NaN
            ELSE Div(Mul(Dot(BF[n], weights), phase[n]), SumSeq(BF[n]))]

\* ------------------------------------------------------------------------
\* Rollout integrator
\* ------------------------------------------------------------------------

\* lines 136-138: forcing_term[:,d] = forcing_function_approx(weights[:,d], phase)
ForcingTerm(self, phase) ==
    LET f == [d \in 1..3 |-> forcing_function_approx(self, Column(self.weights, d), phase)]
    IN  [n \in 1..self.N |->
            IF f[1][n] = NaN THEN NaNs(3) ELSE <<f[1][n], f[2][n], f[3][n]>>]

\* line 141-143
StepAccel(self, qT, q_prev, dq_prev, forcing_n) ==
    VAdd(VTimes(self.alphaz,
                VSub(VTimes(self.betaz, logarithmic_map(quaternion_error(qT, q_prev))),
                     dq_prev)),
         forcing_n)

\* line 145
StepVel(self, tau, dq_prev, ddq_prev) ==
    VAdd(dq_prev, VMul(self.dt, VMul(tau, ddq_prev)))

\* line 146
StepQuat(self, tau, q_prev, dq_prev) ==
    quaternion_product(exponential_map(VMul(self.dt, VMul(tau, dq_prev))), q_prev)

\* a variant of the loop body that integrates the velocity with the
\* acceleration it has just computed, ddq[n], instead of ddq[n-1]
RolloutStepFresh(self, qT, tau, forcing, tr, n) ==
    LET a == StepAccel(self, qT, tr.q[n - 1], tr.dq[n - 1], forcing[n])
    IN  [ q   |-> Append(tr.q, StepQuat(self, tau, tr.q[n - 1], tr.dq[n - 1])),
          dq  |-> Append(tr.dq, StepVel(self, tau, tr.dq[n - 1], a)),
          ddq |-> Append(tr.ddq, a) ]

\* one pass of the loop body, lines 141-146, appending row n
RolloutStep(self, qT, tau, forcing, tr, n) ==
    [ q   |-> Append(tr.q, StepQuat(self, tau, tr.q[n - 1], tr.dq[n - 1])),
      dq  |-> Append(tr.dq, StepVel(self, tau, tr.dq[n - 1], tr.ddq[n - 1])),
      ddq |-> Append(tr.ddq, StepAccel(self, qT, tr.q[n - 1], tr.dq[n - 1], forcing[n])) ]

\* lines 140-146: for n in range(1, N)
RECURSIVE RolloutLoop(_, _, _, _, _, _)
RolloutLoop(self, qT, tau, forcing, tr, n) ==
    IF n > self.N THEN tr
    ELSE RolloutLoop(self, qT, tau, forcing,
                     CHOOSE t \in {RolloutStep(self, qT, tau, forcing, tr, n)} : TRUE,
                     n + 1)

\* lines 127-148 on a trained model with N >= 1; q0 and qT are the rows the
\* views self.q0 and self.qT read
RolloutTrajectory(self, q0, qT, tau) ==
    RolloutLoop(self, qT, tau, ForcingTerm(self, PhaseSchedule(self, tau)),
                [q |-> <<q0>>, dq |-> <<self.dq_log0>>, ddq |-> <<self.ddq_log0>>], 2)

\* ------------------------------------------------------------------------
\* Inputs explored
\* ------------------------------------------------------------------------

\* longest demonstration passed to imitate
MaxDemoLen == 2

\* writes the caller makes into arrays the calls returned
MaxWrites == 1

\* rows of a demonstration, (x, y, z, w): the identity, 90 degrees about z,
\* and a zero row
QuatSamples == { <<0, 0, 0, 100>>, <<0, 0, 71, 71>>, <<0, 0, 0, 0>> }

\* what the caller writes into a row of a returned array
WriteSamples == { <<100, 0, 0, 0>> }

Demos == UNION { [1..l -> QuatSamples] : l \in 0..MaxDemoLen }

\* constructor arguments: N_bf, and dt = -0.5, 0, 1/3, 1
NbfValues == {-1, 0, 2}
DtValues == {-50, 0, 33, 100}

\* rollout argument tau = 0.5, 1, 2
TauValues == {50, 100, 200}

\* what an empty demonstration raises depends on the scipy release: from_quat
\* or Slerp reject it (ValueError), or Slerp.__call__ indexes times[0]
EmptyDemoErrors == {"ValueError", "IndexError"}

\* ------------------------------------------------------------------------
\* State
\* ------------------------------------------------------------------------

VARIABLES
    dmp,        \* the QuaternionDMP instance: its attributes
    heap,       \* numpy arrays that are shared by reference: address -> rows
    q_des,      \* address of the array the last successful imitate returned (0: none)
    out,        \* addresses of the three arrays the last successful rollout returned
    last,       \* the last call and how it ended
    demo_of,    \* the demonstration of the last successful imitate
    writes      \* number of writes the caller made into returned arrays

vars == <<dmp, heap, q_des, out, last, demo_of, writes>>

NoView == [arr |-> 0, row |-> 0]

NoInstance ==
    [ exists |-> FALSE, T |-> 0, dt |-> 0, N |-> 0, alphax |-> 0, alphaz |-> 0,
      betaz |-> 0, N_bf |-> 0, tau |-> 0, c |-> << >>, h |-> << >>,
      attrs |-> {}, q |-> 0, dq_log |-> << >>, ddq_log |-> << >>,
      q0 |-> NoView, dq_log0 |-> << >>, ddq_log0 |-> << >>, qT |-> NoView,
      phase |-> << >>, weights |-> << >> ]

\* a call: the operation, the exception it raised ("none": it returned) and
\* its arguments (length of the demonstration; tau; N_bf and dt)
Outcome(op, raised, len, tau, N_bf, dt) ==
    [op |-> op, raised |-> raised, len |-> len, tau |-> tau, N_bf |-> N_bf, dt |-> dt]

\* row `v.row` of the array `v.arr`: what reading the numpy view gives
Deref(hp, v) == hp[v.arr][v.row]

\* a fresh address
Alloc(hp) == CHOOSE a \in 1..(Cardinality(DOMAIN hp) + 1) : a \notin DOMAIN hp

\* np.zeros([n, k])
ZeroArray(n, k) == [i \in 1..n |-> Zeros(k)]

\* ------------------------------------------------------------------------
\* __init__
\* ------------------------------------------------------------------------

\* the exception __init__ raises, "none" when it returns
InitRaises(N_bf, dt) ==
    IF dt = 0 THEN "ZeroDivisionError"          \* line 12: self.T / self.dt
    ELSE IF N_bf < 0 THEN "ValueError"          \* line 20: np.ones(self.N_bf)
    ELSE "none"

NewInstance(N_bf, dt) ==
    [ NoInstance EXCEPT
        !.exists = TRUE,
        !.T = T0,
        !.dt = dt,
        !.N = Trunc(T0, dt),
        !.alphax = alphax0,
        !.alphaz = alphaz0,
        !.betaz = betaz0,
        !.N_bf = N_bf,
        !.tau = tau0,
        !.c = Centers(N_bf),
        !.h = Widths(N_bf) ]

\* ------------------------------------------------------------------------
\* imitate, statement by statement; m = [self, heap]
\* ------------------------------------------------------------------------

\* self.q = <a new array holding rows>
BindNewArray(m, rows) ==
    [ self |-> [m.self EXCEPT !.q = Alloc(m.heap), !.attrs = @ \cup {"q"}],
      heap |-> [a \in DOMAIN m.heap \cup {Alloc(m.heap)} |->
                    IF a = Alloc(m.heap) THEN rows ELSE m.heap[a]] ]

\* a variant of line 32 that clears the array self.q already names,
\* self.q[:] = 0, instead of binding a new one
ImitateZerosInPlace(m) ==
    IF "q" \in m.self.attrs /\ Len(m.heap[m.self.q]) = m.self.N
    THEN [m EXCEPT !.heap[m.self.q] = ZeroArray(m.self.N, 4)]
    ELSE BindNewArray(m, ZeroArray(m.self.N, 4))

\* line 32: self.q = np.zeros([self.N, 4])
ImitateZeros(m) == BindNewArray(m, ZeroArray(m.self.N, 4))

\* line 33: what R.from_quat and Slerp(...) raise for this demonstration
SlerpRaises(demo, emptyErr) ==
    IF sp_has_zero_norm(demo) THEN "ValueError"
    ELSE IF Len(demo) = 1 THEN "ValueError"
    ELSE IF Len(demo) = 0 THEN emptyErr
    ELSE "none"

\* line 34: self.q = slerp(np.linspace(0.0, self.T, self.N)).as_quat()
ImitateResample(m, demo) == BindNewArray(m, Slerp(sp_from_quat(demo), m.self.N))

\* lines 36-39: self.dq_log, self.ddq_log
ImitateDiff(m) ==
    LET dq == quaternion_diff(m.heap[m.self.q], m.self.dt)
    IN  [m EXCEPT !.self.dq_log = dq,
                  !.self.ddq_log = Accel(dq, m.self.dt),
                  !.self.attrs = @ \cup {"dq_log", "ddq_log"}]

\* lines 42-45: q0 and qT are views into the array self.q; dq_log0 and
\* ddq_log0 are views into arrays no later statement writes, held by value
ImitateEnds(m) ==
    [m EXCEPT !.self.q0 = [arr |-> m.self.q, row |-> 1],
              !.self.dq_log0 = m.self.dq_log[1],
              !.self.ddq_log0 = m.self.ddq_log[1],
              !.self.qT = [arr |-> m.self.q, row |-> m.self.N],
              !.self.attrs = @ \cup {"q0", "dq_log0", "ddq_log0", "qT"}]

\* line 48
ImitatePhase(m) ==
    [m EXCEPT !.self.phase = PhaseSchedule(m.self, Scale),
              !.self.attrs = @ \cup {"phase"}]

\* lines 51-57
ImitateFit(m) ==
    [m EXCEPT !.self.weights =
                  fit_dmp(m.self, ForcingTarget(m.self, m.heap[m.self.q],
                                                Deref(m.heap, m.self.qT))),
              !.self.attrs = @ \cup {"weights"}]

Force(x) == CHOOSE y \in {x} : TRUE

\* imitate(demo): the machine after the call, the exception raised ("none"
\* when it returns) and the address returned
imitate(m, demo, emptyErr) ==
    IF m.self.N < 0
    THEN [m |-> m, raised |-> "ValueError", ret |-> 0]          \* line 32
    ELSE IF SlerpRaises(demo, emptyErr) # "none"                \* lines 33-34
    THEN [m |-> ImitateZeros(m), raised |-> SlerpRaises(demo, emptyErr), ret |-> 0]
    ELSE IF m.self.N < 2                                        \* line 101
    THEN [m |-> ImitateResample(ImitateZeros(m), demo), raised |-> "IndexError", ret |-> 0]
    ELSE LET m1 == Force(ImitateDiff(Force(ImitateResample(ImitateZeros(m), demo))))
             m2 == Force(ImitateFit(Force(ImitatePhase(ImitateEnds(m1)))))
         IN  [m |-> m2, raised |-> "none", ret |-> m2.self.q]   \* line 59

\* ------------------------------------------------------------------------
\* rollout
\* ------------------------------------------------------------------------

\* the attributes rollout reads before its loop, in the order it reads them
\* (lines 130, 131, 132, 138, 109), and self.qT inside the loop (line 142)
RolloutMissing(self) ==
    \/ ~({"q0", "dq_log0", "ddq_log0", "weights", "phase"} \subseteq self.attrs)
    \/ (self.N >= 2 /\ "qT" \notin self.attrs)

RolloutRaises(self) ==
    IF self.N < 0 THEN "ValueError"                 \* line 127: np.zeros([self.N, 4])
    ELSE IF "q0" \notin self.attrs THEN "AttributeError"   \* line 130: self.q0
    ELSE IF self.N = 0 THEN "IndexError"            \* line 130: q_rollout[0, :]
    ELSE IF RolloutMissing(self) THEN "AttributeError"
    ELSE "none"

\* three new arrays at fresh addresses
StoreThree(hp, tr) ==
    LET a1 == Alloc(hp)
        a2 == a1 + 1 + Cardinality(DOMAIN hp)
        a3 == a2 + 1
    IN  [ heap |-> [a \in DOMAIN hp \cup {a1, a2, a3} |->
                        IF a = a1 THEN tr.q ELSE IF a = a2 THEN tr.dq
                        ELSE IF a = a3 THEN tr.ddq ELSE hp[a]],
          ret |-> <<a1, a2, a3>> ]

\* a variant of rollout that keeps its phase schedule on the instance,
\* self.phase = np.exp(...), instead of in the local of line 134
rollout_storing_phase(m, tau) ==
    IF RolloutRaises(m.self) # "none"
    THEN [m |-> m, raised |-> RolloutRaises(m.self), ret |-> << >>]
    ELSE LET self1 == [m.self EXCEPT !.phase = PhaseSchedule(m.self, tau)]
             st == Force(StoreThree(m.heap,
                        RolloutTrajectory(self1, Deref(m.heap, m.self.q0),
                                          Deref(m.heap, m.self.qT), tau)))
         IN  [m |-> [self |-> self1, heap |-> st.heap], raised |-> "none", ret |-> st.ret]

\* rollout(tau): the machine after the call, the exception raised and the
\* addresses of q_rollout, dq_log_rollout, ddq_log_rollout
rollout(m, tau) ==
    IF RolloutRaises(m.self) # "none"
    THEN [m |-> m, raised |-> RolloutRaises(m.self), ret |-> << >>]
    ELSE LET st == Force(StoreThree(m.heap,
                        RolloutTrajectory(m.self, Deref(m.heap, m.self.q0),
                                          Deref(m.heap, m.self.qT), tau)))
         IN  [m |-> [self |-> m.self, heap |-> st.heap], raised |-> "none", ret |-> st.ret]

\* ------------------------------------------------------------------------
\* Garbage collection: arrays no reference reaches are freed, the others are
\* renumbered in address order
\* ------------------------------------------------------------------------

Roots(self, qd, o) ==
    ({self.q, self.q0.arr, self.qT.arr, qd} \cup {o[i] : i \in 1..Len(o)}) \ {0}

Rank(live, a) == IF a = 0 THEN 0 ELSE Cardinality({b \in live : b <= a})

Moved(live, v) == [arr |-> Rank(live, v.arr), row |-> v.row]

\* the successor state: the instance, heap and caller references after collection
Settle(self, hp, qd, o, lst, dem) ==
    LET live == Roots(self, qd, o)
    IN  /\ dmp' = [self EXCEPT !.q = Rank(live, @), !.q0 = Moved(live, @),
                               !.qT = Moved(live, @)]
        /\ heap' = [r \in 1..Cardinality(live) |->
                        hp[CHOOSE a \in live : Rank(live, a) = r]]
        /\ q_des' = Rank(live, qd)
        /\ out' = [i \in 1..Len(o) |-> Rank(live, o[i])]
        /\ last' = lst
        /\ demo_of' = dem

\* ------------------------------------------------------------------------
\* Actions
\* ------------------------------------------------------------------------

Init ==
    /\ dmp = NoInstance
    /\ heap = << >>
    /\ q_des = 0
    /\ out = << >>
    /\ last = Outcome("none", "none", 0, 0, 0, 0)
    /\ demo_of = << >>
    /\ writes = 0

\* dmp = QuaternionDMP(N_bf, dt)
Construct(N_bf, dt) ==
    /\ ~dmp.exists
    /\ dmp' = IF InitRaises(N_bf, dt) = "none" THEN NewInstance(N_bf, dt) ELSE NoInstance
    /\ last' = Outcome("init", InitRaises(N_bf, dt), 0, 0, N_bf, dt)
    /\ UNCHANGED <<heap, q_des, out, demo_of, writes>>

\* q_des = dmp.imitate(demo); the caller has dropped the arrays of an earlier
\* rollout by then
Imitate(demo, emptyErr) ==
    /\ dmp.exists
    /\ \E r \in {imitate([self |-> dmp, heap |-> heap], demo, emptyErr)} :
          Settle(r.m.self, r.m.heap,
                 IF r.raised = "none" THEN r.ret ELSE q_des,
                 << >>,
                 Outcome("imitate", r.raised, Len(demo), 0, 0, 0),
                 IF r.raised = "none" THEN demo ELSE demo_of)
    /\ UNCHANGED writes

\* q_rollout, dq_rollout, ddq_rollout = dmp.rollout(tau)
Rollout(tau) ==
    /\ dmp.exists
    /\ \E r \in {rollout([self |-> dmp, heap |-> heap], tau)} :
          Settle(r.m.self, r.m.heap, q_des,
                 IF r.raised = "none" THEN r.ret ELSE out,
                 Outcome("rollout", r.raised, 0, tau, 0, 0),
                 demo_of)
    /\ UNCHANGED writes

\* the caller assigns to one row of an array a call returned:
\* q_des[row, :] = v, or q_rollout[row, :] = v (and the two other results)
CallerWrite(a, row, v) ==
    /\ writes < MaxWrites
    /\ a \in ({q_des} \cup {out[i] : i \in 1..Len(out)}) \ {0}
    /\ row \in 1..Len(heap[a])
    /\ heap' = [heap EXCEPT ![a][row] = [i \in 1..Len(heap[a][row]) |-> v[i]]]
    /\ writes' = writes + 1
    /\ last' = Outcome("write", "none", 0, 0, 0, 0)
    /\ UNCHANGED <<dmp, q_des, out, demo_of>>

Next ==
    \/ \E N_bf \in NbfValues, dt \in DtValues : Construct(N_bf, dt)
    \/ \E demo \in Demos :
          \E emptyErr \in (IF Len(demo) = 0 THEN EmptyDemoErrors ELSE {"ValueError"}) :
             Imitate(demo, emptyErr)
    \/ \E tau \in TauValues : Rollout(tau)

Spec == Init /\ [][Next]_vars

\* the calls, and a caller that also writes into what they returned
NextCaller ==
    \/ Next
    \/ \E a \in DOMAIN heap, row \in 1..3, v \in WriteSamples : CallerWrite(a, row, v)

SpecCaller == Init /\ [][NextCaller]_vars

\* ------------------------------------------------------------------------
\* Properties
\* ------------------------------------------------------------------------

\* some imitate call has succeeded on the instance
Trained == demo_of # << >>

\* the trained state by value: q0, qT, dq_log0, ddq_log0, weights
TrainedFields == {"q0", "qT", "dq_log0", "ddq_log0", "weights"}

TrainedValue(self, hp) ==
    IF TrainedFields \subseteq self.attrs
    THEN << Deref(hp, self.q0), Deref(hp, self.qT), self.dq_log0, self.ddq_log0,
            self.weights >>
    ELSE << >>

\* every attribute of the instance by value (arrays and views read through)
ModelValue(self, hp) ==
    << [self EXCEPT !.q = 0, !.q0 = NoView, !.qT = NoView],
       IF "q" \in self.attrs THEN hp[self.q] ELSE << >>,
       IF "q0" \in self.attrs THEN Deref(hp, self.q0) ELSE << >>,
       IF "qT" \in self.attrs THEN Deref(hp, self.qT) ELSE << >> >>

\* the three arrays the last rollout returned
OutValue == [i \in 1..Len(out) |-> heap[out[i]]]

\* C1: rollout on an instance on which no imitate has succeeded raises
\* UntrainedModelError and returns no trajectory.
C1_RolloutUntrainedRaises ==
    (dmp.exists /\ last.op = "rollout" /\ ~Trained)
        => (last.raised = "UntrainedModelError" /\ out = << >>)

\* C2: a constructor call with N_bf <= 0 or dt <= 0 raises InvalidConfig and
\* returns no instance.
C2_InvalidConfigRejected ==
    (last.op = "init" /\ (last.N_bf <= 0 \/ last.dt <= 0))
        => (last.raised = "InvalidConfig" /\ ~dmp.exists)

\* C3: imitate with fewer than 2 samples raises InsufficientDemonstration,
\* trained or not.
C3_ShortDemoRaises ==
    (last.op = "imitate" /\ last.len < 2) => last.raised = "InsufficientDemonstration"

\* what imitate(demo_of) stores on a fresh instance of the same configuration
ReferenceFit ==
    LET r == imitate([self |-> NewInstance(dmp.N_bf, dmp.dt), heap |-> << >>],
                     demo_of, "ValueError")
    IN  TrainedValue(r.m.self, r.m.heap)

\* C4: after any sequence of imitate and rollout calls, the trained fields
\* (q0, qT, dq_log0, ddq_log0, weights) are either all unset, or all set and
\* all those of the last demonstration an imitate call succeeded on; a failed
\* imitate leaves them as they were.
C4_TrainedAllOrNothing ==
    dmp.exists =>
        \/ (~Trained /\ TrainedFields \cap dmp.attrs = {})
        \/ (Trained /\ TrainedFields \subseteq dmp.attrs
                    /\ TrainedValue(dmp, heap) = ReferenceFit)

\* a failed imitate call on a trained instance
C4_Witness ==
    Trained /\ last.op = "imitate" /\ last.raised # "none" /\ "weights" \in dmp.attrs

\* C5: a rollout call on a trained model returns, leaves every attribute of
\* the model as it was, and returns what the previous rollout returned when
\* that one had the same tau.
C5_RolloutReadOnly ==
    [][ (Trained /\ last'.op = "rollout")
            => /\ last'.raised = "none"
               /\ ModelValue(dmp', heap') = ModelValue(dmp, heap)
               /\ demo_of' = demo_of
               /\ (last.op = "rollout" /\ last.tau = last'.tau) => OutValue' = OutValue
      ]_vars

\* a rollout with tau = 2 has returned on a trained model with two basis
\* functions, whose stored phase is still the schedule of tau = 1
C5_Witness ==
    Trained /\ last.op = "rollout" /\ last.raised = "none" /\ last.tau = 200
            /\ Len(out) = 3 /\ dmp.N_bf = 2
            /\ dmp.phase = PhaseSchedule(dmp, Scale)
            /\ dmp.phase # PhaseSchedule(dmp, last.tau)

\* C6: the trained state (q0, qT, dq_log0, ddq_log0, weights) changes only in
\* an imitate call; a caller writing into a returned array leaves it as it was.
C6_TrainedStateOnlyByImitate ==
    [][ last'.op # "imitate" => TrainedValue(dmp', heap') = TrainedValue(dmp, heap) ]_vars

\* the rows of the resampled trajectory, as the resampler delivers them
ResampledRows == IF "q" \in dmp.attrs THEN {heap[dmp.q][i] : i \in 1..Len(heap[dmp.q])} ELSE {}

\* C7: on the quaternions the resampler delivers, (x, y, z, w), conjugate
\* negates x, y, z and keeps w, product is the Hamilton product with the
\* scalar part w, and exponentialMap of the zero vector is the identity
\* rotation (0, 0, 0, 1).
C7_OrderingConsistent ==
    Trained =>
        /\ \A q \in ResampledRows : quaternion_conjugate(q) = <<-q[1], -q[2], -q[3], q[4]>>
        /\ \A p \in ResampledRows, q \in ResampledRows :
              quaternion_product(p, q) = sp_compose(p, q)
        /\ exponential_map(Zeros(3)) = <<0, 0, 0, Scale>>

\* the attractor part of line 141 at row n, from the returned arrays
Attractor(n) ==
    VTimes(dmp.alphaz,
           VSub(VTimes(dmp.betaz,
                       logarithmic_map(quaternion_error(Deref(heap, dmp.qT),
                                                        heap[out[1]][n - 1]))),
                heap[out[2]][n - 1]))

\* the forcing term with basis functions and factor at the schedule of tau
ForcingAtSchedule(tau) ==
    ForcingTerm([dmp EXCEPT !.phase = PhaseSchedule(dmp, tau)], PhaseSchedule(dmp, tau))

\* C9: the forcing term rollout(tau) adds at step n is
\* (sum_i BF[n,i] * weights[i]) * x[n] / sum_i BF[n,i] with BF and x both
\* evaluated at the schedule x[n] = exp(-alphax * tau * t_n) of that call.
C9_ForcingAtRescaledPhase ==
    (Trained /\ last.op = "rollout" /\ last.raised = "none") =>
        \A n \in 2..dmp.N :
            VSub(heap[out[3]][n], Attractor(n)) = ForcingAtSchedule(last.tau)[n]

\* C10: rollout(tau) returns three arrays of N rows; row 0 is q0, dq_log0,
\* ddq_log0; for n = 1..N-1, ddq[n] comes from q[n-1], dq[n-1] and the forcing
\* term at n, dq[n] = dq[n-1] + tau * ddq[n-1] * dt, and
\* q[n] = product(exponentialMap(tau * dq[n-1] * dt), q[n-1]).
C10_UpdateOrder ==
    (Trained /\ last.op = "rollout" /\ last.raised = "none") =>
        LET q == heap[out[1]]
            dq == heap[out[2]]
            ddq == heap[out[3]]
            f == ForcingTerm(dmp, PhaseSchedule(dmp, last.tau))
        IN  /\ Len(out) = 3 /\ Len(q) = dmp.N /\ Len(dq) = dmp.N /\ Len(ddq) = dmp.N
            /\ q[1] = Deref(heap, dmp.q0) /\ dq[1] = dmp.dq_log0 /\ ddq[1] = dmp.ddq_log0
            /\ \A n \in 2..dmp.N :
                  /\ ddq[n] = VAdd(Attractor(n), f[n])
                  /\ dq[n] = VAdd(dq[n - 1], VMul(dmp.dt, VMul(last.tau, ddq[n - 1])))
                  /\ q[n] = quaternion_product(
                                exponential_map(VMul(dmp.dt, VMul(last.tau, dq[n - 1]))),
                                q[n - 1])

\* a rollout with tau = 2 has returned on a model with two basis functions
C10_Witness ==
    Trained /\ last.op = "rollout" /\ last.raised = "none" /\ last.tau = 200
            /\ dmp.N = 3 /\ dmp.N_bf = 2 /\ heap[out[2]][2] # heap[out[2]][3]

====
